---- MODULE Spec2Model ----
(***************************************************************************)
(* A model of the babushka advice backend (src/main.py): the Clerk token   *)
(* verifier, the philosophy selection, the in-memory conversation log and  *)
(* the request handlers that read and append to it.                         *)
(*                                                                          *)
(* Strings the code takes apart (environment values, the Authorization     *)
(* header, the JWKS URLs) are sequences of pieces, so that startswith,     *)
(* replace and the f-string concatenations act on them as the code does.   *)
(* Optional[...] values are None == <<>> or Some(x) == <<x>>.  A dict with *)
(* string keys read through .get is a set of <<key, value>> pairs.         *)
(***************************************************************************)
EXTENDS Integers, Sequences, FiniteSets, TLC

\* Number of HTTP requests the server receives in one run.
MaxRequests == 2

Requests == 1..MaxRequests

None == <<>>
Some(x) == <<x>>

\* dict.get(key): Some(value) or None.
DictGet(d, key) ==
    IF \E p \in d : p[1] = key
    THEN Some((CHOOSE p \in d : p[1] = key)[2])
    ELSE None

\* Python truthiness of an Optional[str] / Optional[dict] / str value.
TruthyStr(s) == s # ""
TruthyOptStr(o) == o # None /\ TruthyStr(o[1])
TruthyOptDict(o) == o # None /\ o[1] # {}
TruthyOptSeq(o) == o # None /\ o[1] # <<>>

\* str.replace(old, ""): every occurrence of the piece is removed.
Remove(s, old) == SelectSeq(s, LAMBDA p : p # old)

\* a or b, on strings held as sequences of pieces ("" is falsy).
OrElse(a, b) == IF a # <<>> THEN a ELSE b

(***************************************************************************)
(* Startup configuration, lines 37-45.                                     *)
(***************************************************************************)

\* The process environments considered: os.getenv of an unset variable is
\* None (or the given default ""), both falsy, both held as <<>>.
Environments ==
    { [CLERK_INSTANCE_URL |-> <<>>, NEXT_PUBLIC_CLERK_PUBLISHABLE_KEY |-> <<>>,
       CLERK_SECRET_KEY |-> <<>>],
      [CLERK_INSTANCE_URL |-> <<"auth.example.com">>,
       NEXT_PUBLIC_CLERK_PUBLISHABLE_KEY |-> <<>>,
       CLERK_SECRET_KEY |-> <<"sk_test_", "c2VjcmV0">>],
      [CLERK_INSTANCE_URL |-> <<>>,
       NEXT_PUBLIC_CLERK_PUBLISHABLE_KEY |-> <<"pk_test_", "Y2xlcms">>,
       CLERK_SECRET_KEY |-> <<>>] }

DefaultClerkHost == <<"clerk.askbabushka.ai">>

\* Variant: the fallback to the default host is missing.
ClerkInstanceUrl_NoDefault(env) ==
    OrElse(env.CLERK_INSTANCE_URL,
           Remove(Remove(env.NEXT_PUBLIC_CLERK_PUBLISHABLE_KEY, "pk_live_"),
                  "pk_test_"))

ClerkInstanceUrl(env) ==
    OrElse(env.CLERK_INSTANCE_URL,
           OrElse(Remove(Remove(env.NEXT_PUBLIC_CLERK_PUBLISHABLE_KEY, "pk_live_"),
                         "pk_test_"),
                  DefaultClerkHost))

\* No identity-provider discovery host is configured in the environment.
NoDiscoveryConfigured(env) ==
    /\ env.CLERK_INSTANCE_URL = <<>>
    /\ env.NEXT_PUBLIC_CLERK_PUBLISHABLE_KEY = <<>>

(***************************************************************************)
(* verify_clerk_token, lines 60-122.                                       *)
(***************************************************************************)

WellKnown == "/.well-known/jwks.json"
DevInstanceJwks == <<"https://", "brave-fawn-12.clerk.accounts.dev", WellKnown>>

JwksUrls(host) ==
    << <<"https://">> \o host \o <<WellKnown>>,
       <<"https://clerk.">> \o host \o <<WellKnown>>,
       DevInstanceJwks >>

\* The tokens in circulation, as PyJWKClient and jwt.decode find them: the
\* JWKS URL that publishes the key the token is signed with (<<>> when no
\* key source publishes it), whether its exp has passed, and its payload.
IssuedTokens ==
    [ tok_u1 |-> [key_at |-> <<"https://">> \o DefaultClerkHost \o <<WellKnown>>,
                  expired |-> FALSE, claims |-> {<<"sub", "user_1">>}],
      tok_u2 |-> [key_at |-> DevInstanceJwks,
                  expired |-> FALSE, claims |-> {<<"sub", "user_2">>}],
      tok_u1_old |-> [key_at |-> DevInstanceJwks,
                  expired |-> TRUE, claims |-> {<<"sub", "user_1">>}],
      tok_forged |-> [key_at |-> <<>>,
                  expired |-> FALSE, claims |-> {<<"sub", "user_1">>}],
      tok_nosub |-> [key_at |-> DevInstanceJwks,
                  expired |-> FALSE, claims |-> {<<"sid", "sess_1">>}] ]

TokenNames == DOMAIN IssuedTokens

\* Authorization header values: absent, not a Bearer header, a Bearer header
\* with a string that is no JWT, and a Bearer header with each token.
Headers ==
    {None, Some(<<"Basic ", "dXNlcg">>), Some(<<"Bearer ", "garbage">>)}
        \cup {Some(<<"Bearer ", t>>) : t \in TokenNames}

WellFormed(token) == Len(token) = 1 /\ token[1] \in TokenNames

\* Whether each of the three JWKS fetches of one verification succeeds.
FetchOutcomes == [1..3 -> BOOLEAN]

\* Variant: verify_exp is off, an expired token decodes.
TryJwksUrl_NoExpiry(token, url, fetch_ok) ==
    IF ~WellFormed(token) THEN None
    ELSE IF ~fetch_ok THEN None
    ELSE IF IssuedTokens[token[1]].key_at # url THEN None
    ELSE Some(IssuedTokens[token[1]].claims)

\* The body of the inner try for one URL (lines 83-108): Some(decoded) when
\* jwt.decode returns, None when anything in it raises.
TryJwksUrl(token, url, fetch_ok) ==
    IF ~WellFormed(token) THEN None
    ELSE IF ~fetch_ok THEN None
    ELSE IF IssuedTokens[token[1]].key_at # url THEN None
    ELSE IF IssuedTokens[token[1]].expired THEN None
    ELSE Some(IssuedTokens[token[1]].claims)

\* The for loop over jwks_urls (lines 82-115), from the i-th URL on.
RECURSIVE TryFrom(_, _, _, _)
TryFrom(token, urls, fetch, i) ==
    IF i > Len(urls) THEN [user_info |-> None, consulted |-> Len(urls)]
    ELSE LET decoded == TryJwksUrl(token, urls[i], fetch[i])
         IN IF decoded # None
            THEN [user_info |-> decoded, consulted |-> i]
            ELSE TryFrom(token, urls, fetch, i + 1)

\* verify_clerk_token: the claims (or None) and how many key sources it tried.
VerifyClerkToken(authorization, host, fetch) ==
    IF ~TruthyOptSeq(authorization) THEN [user_info |-> None, consulted |-> 0]
    ELSE IF authorization[1][1] # "Bearer "
         THEN [user_info |-> None, consulted |-> 0]
         ELSE TryFrom(Remove(authorization[1], "Bearer "), JwksUrls(host), fetch, 1)

\* The results of the dependency over every way the JWKS fetches can go.
VerificationTable ==
    [host \in {ClerkInstanceUrl(env) : env \in Environments}, authorization \in Headers |->
        {VerifyClerkToken(authorization, host, fetch) : fetch \in FetchOutcomes}]

Verifications(authorization, host) == VerificationTable[host, authorization]

(***************************************************************************)
(* The philosophy selection of POST /advice, lines 204-219.                *)
(***************************************************************************)

\* philosophy_weights in dict order; the weights are held in hundredths.
PhilosophyWeights ==
    << <<"christian", 30>>, <<"buddhist", 30>>, <<"taoist", 10>>,
       <<"secular_humanist", 10>>, <<"stoic", 20>> >>

Min(a, b) == IF a <= b THEN a ELSE b

\* [k for k, v in philosophy_weights.items() if v > 0]
AvailablePhilosophies(table) ==
    LET kept == SelectSeq(table, LAMBDA e : e[2] > 0)
    IN [i \in 1..Len(kept) |-> kept[i][1]]

\* [philosophy_weights[k] for k in available_philosophies]
AvailableWeights(table) ==
    LET kept == SelectSeq(table, LAMBDA e : e[2] > 0)
    IN [i \in 1..Len(kept) |-> kept[i][2]]

\* Variant: max in place of min.
SelectionSize_Max(available) == IF Len(available) >= 3 THEN Len(available) ELSE 3

\* k=min(3, len(available_philosophies))
SelectionSize(available) == Min(3, Len(available))

\* random.choices(population, weights=weights, k=k): every list of k draws,
\* each draw independent of the others, from the entries of positive weight.
RandomChoices(population, weights, k) ==
    [1..k -> {population[i] : i \in {j \in 1..Len(population) : weights[j] > 0}}]

SelectPhilosophies(table) ==
    RandomChoices(AvailablePhilosophies(table), AvailableWeights(table),
                  SelectionSize(AvailablePhilosophies(table)))

\* The number of lines of philosophy_guidance (lines 231-233), one per draw.
GuidanceLineCounts ==
    {Len(selected) : selected \in SelectPhilosophies(PhilosophyWeights)}

(***************************************************************************)
(* State.                                                                  *)
(***************************************************************************)
VARIABLES
    environ,                \* os.environ at startup
    clerk_instance_url,     \* line 41
    user_conversations,     \* line 57: user id -> sequence of records
    requests,               \* the HTTP requests: inputs, handler position, response
    overlapped,             \* history: some request ran while another awaited generation
    selected_philosophies   \* line 215, as printed at line 221 (None before any draw)

vars == <<environ, clerk_instance_url, user_conversations, requests, overlapped,
          selected_philosophies>>

UserIds == {"user_1", "user_2"}
Situations == {"We keep arguing about chores", "He forgot our anniversary"}

\* Request bodies of POST /advice (RelationshipSituation, lines 124-126).
Bodies == [situation : Situations, user_id : {None, Some("user_1")}]

\* What client.messages.create does (lines 254-262): raises, or returns a
\* response whose content list is empty or holds one text block.
GenerationOutcomes ==
    { [raised |-> TRUE, content |-> <<>>],
      [raised |-> FALSE, content |-> <<>>],
      [raised |-> FALSE, content |-> <<"Dearest child, be patient.">>] }

Idle ==
    [endpoint |-> "", pc |-> "idle", authorization |-> None, user_info |-> None,
     consulted |-> 0, situation |-> "", path_user_id |-> "", user_id |-> None,
     guidance_lines |-> 0, generation_calls |-> 0, generation |-> None,
     response |-> None]

\* user_conversations.get(user_id, [])
ConversationsOf(log, user_id) ==
    IF user_id \in DOMAIN log THEN log[user_id] ELSE <<>>

\* Variant: insert(0, record) in place of append.
AppendRecord_Prepend(log, user_id, type, content) ==
    LET present == IF user_id \in DOMAIN log THEN log ELSE log @@ (user_id :> <<>>)
    IN [present EXCEPT ![user_id] = <<[type |-> type, content |-> content]>> \o @]

\* Variant: the list is assigned anew on every append, dropping what it held.
AppendRecord_Overwrite(log, user_id, type, content) ==
    LET present == IF user_id \in DOMAIN log THEN log ELSE log @@ (user_id :> <<>>)
    IN [present EXCEPT ![user_id] = <<[type |-> type, content |-> content]>>]

\* lines 195-202 and 267-271: create the list if absent, then append.  A
\* record is its type and content; its timestamp, which no handler reads,
\* is left out.
AppendRecord(log, user_id, type, content) ==
    LET present == IF user_id \in DOMAIN log THEN log ELSE log @@ (user_id :> <<>>)
    IN [present EXCEPT ![user_id] = Append(@, [type |-> type, content |-> content])]

Init ==
    /\ environ \in Environments
    /\ clerk_instance_url = ClerkInstanceUrl(environ)
    /\ user_conversations = <<>>
    /\ requests = [r \in Requests |-> Idle]
    /\ overlapped = FALSE
    /\ selected_philosophies = None

(***************************************************************************)
(* Request handlers.  Requests are numbered in the order the server starts *)
(* handling them.  A handler runs without interruption except while its    *)
(* call to the generation API is outstanding: POST /advice is the steps    *)
(* PostAdviceBegin (up to the call) and PostAdviceResume (from its return  *)
(* or its exception on); a schedule in which the call blocks the server is *)
(* the one where PostAdviceResume(r) directly follows PostAdviceBegin(r).  *)
(* A request record keeps the Authorization header and the number of key   *)
(* sources tried while the request is in flight, and what the handler was  *)
(* given and answered (user_info, the body, the path, the response) after. *)
(***************************************************************************)

Accepts(r) ==
    /\ requests[r].pc = "idle"
    /\ IF r = 1 THEN TRUE ELSE requests[r - 1].pc # "idle"

AwaitingGeneration == {r \in Requests : requests[r].pc = "generating"}

\* lines 186-191
SubjectOf(user_info) ==
    IF TruthyOptDict(user_info) THEN DictGet(user_info[1], "sub") ELSE None

\* Variant: the message is stored without the test of user_id, under str(None)
\* for an anonymous request.
StoreUserMessage_Unconditional(log, user_id, situation) ==
    AppendRecord(log, IF user_id = None THEN "None" ELSE user_id[1],
                 "user_message", situation)

\* lines 194-202
StoreUserMessage(log, user_id, situation) ==
    IF TruthyOptStr(user_id)
    THEN AppendRecord(log, user_id[1], "user_message", situation)
    ELSE log

\* lines 266-271
StoreBotResponse(log, user_id, advice_text) ==
    IF TruthyOptStr(user_id)
    THEN AppendRecord(log, user_id[1], "bot_response", advice_text)
    ELSE log

\* line 273
AdviceResponse(advice_text, user_id, user_info) ==
    [status |-> 200, advice |-> advice_text, user_id |-> user_id,
     authenticated |-> TruthyOptDict(user_info)]

\* lines 275-280
AdviceError(message) ==
    [status |-> 500, detail |-> <<"Error generating advice: ", message>>]

\* POST /advice, lines 60-122 (the dependency) and 177-254.
PostAdviceBegin(r) ==
    /\ Accepts(r)
    /\ \E authorization \in Headers, body \in Bodies :
       \E verified \in Verifications(authorization, clerk_instance_url),
          guidance_lines \in GuidanceLineCounts :
          LET user_id == SubjectOf(verified.user_info)
          IN /\ user_conversations' =
                    StoreUserMessage(user_conversations, user_id, body.situation)
             /\ requests' = [requests EXCEPT ![r] =
                    [Idle EXCEPT !.endpoint = "POST /advice",
                                 !.pc = "generating",
                                 !.authorization = authorization,
                                 !.user_info = verified.user_info,
                                 !.consulted = verified.consulted,
                                 !.situation = body.situation,
                                 !.user_id = user_id,
                                 !.guidance_lines = guidance_lines,
                                 !.generation_calls = 1]]
    /\ overlapped' = (overlapped \/ AwaitingGeneration # {})
    /\ UNCHANGED <<environ, clerk_instance_url, selected_philosophies>>

\* Variant: the exception path pops the user_message stored before the call.
AfterGeneration_Rollback(req, log, outcome) ==
    LET popped == IF TruthyOptStr(req.user_id)
                  THEN [log EXCEPT ![req.user_id[1]] = SubSeq(@, 1, Len(@) - 1)]
                  ELSE log
    IN IF outcome.raised
       THEN [log |-> popped, response |-> AdviceError("upstream error")]
       ELSE IF outcome.content = <<>>
       THEN [log |-> popped, response |-> AdviceError("list index out of range")]
       ELSE [log |-> StoreBotResponse(log, req.user_id, outcome.content[1]),
             response |-> AdviceResponse(outcome.content[1], req.user_id, req.user_info)]

\* What the handler does once client.messages.create has returned or raised.
AfterGeneration(req, log, outcome) ==
    IF outcome.raised
    THEN [log |-> log, response |-> AdviceError("upstream error")]
    ELSE IF outcome.content = <<>>
    THEN [log |-> log, response |-> AdviceError("list index out of range")]
    ELSE [log |-> StoreBotResponse(log, req.user_id, outcome.content[1]),
          response |-> AdviceResponse(outcome.content[1], req.user_id, req.user_info)]

\* POST /advice, lines 254-280.
PostAdviceResume(r) ==
    /\ requests[r].pc = "generating"
    /\ \E outcome \in GenerationOutcomes :
          LET after == AfterGeneration(requests[r], user_conversations, outcome)
          IN /\ user_conversations' = after.log
             /\ requests' = [requests EXCEPT ![r].pc = "done",
                                             ![r].authorization = None,
                                             ![r].consulted = 0,
                                             ![r].generation = Some(outcome),
                                             ![r].response = Some(after.response)]
    /\ UNCHANGED <<environ, clerk_instance_url, overlapped, selected_philosophies>>

\* Variant: the comparison of the token's subject with the path is missing.
ConversationsResponse_NoOwnerCheck(log, path_user_id, user_info) ==
    IF ~TruthyOptDict(user_info)
    THEN [status |-> 401, detail |-> "Authentication required"]
    ELSE [status |-> 200, user_id |-> path_user_id,
          conversations |-> ConversationsOf(log, path_user_id)]

\* The body of get_user_conversations, lines 288-297.
ConversationsResponse(log, path_user_id, user_info) ==
    IF ~TruthyOptDict(user_info)
    THEN [status |-> 401, detail |-> "Authentication required"]
    ELSE IF DictGet(user_info[1], "sub") # Some(path_user_id)
    THEN [status |-> 403, detail |-> "Access denied"]
    ELSE [status |-> 200, user_id |-> path_user_id,
          conversations |-> ConversationsOf(log, path_user_id)]

\* Variant: the read goes through setdefault and leaves an empty list behind.
Responds_CreatesKey(r, endpoint, user_info, path_user_id, response) ==
    /\ requests' = [requests EXCEPT ![r] =
           [Idle EXCEPT !.endpoint = endpoint,
                        !.pc = "done",
                        !.user_info = user_info,
                        !.path_user_id = path_user_id,
                        !.response = Some(response)]]
    /\ overlapped' = (overlapped \/ AwaitingGeneration # {})
    /\ user_conversations' =
          IF path_user_id = "" \/ path_user_id \in DOMAIN user_conversations
          THEN user_conversations
          ELSE user_conversations @@ (path_user_id :> <<>>)
    /\ UNCHANGED <<environ, clerk_instance_url, selected_philosophies>>

\* A handler that runs to its response in one step and leaves the log alone.
Responds(r, endpoint, user_info, path_user_id, response) ==
    /\ requests' = [requests EXCEPT ![r] =
           [Idle EXCEPT !.endpoint = endpoint,
                        !.pc = "done",
                        !.user_info = user_info,
                        !.path_user_id = path_user_id,
                        !.response = Some(response)]]
    /\ overlapped' = (overlapped \/ AwaitingGeneration # {})
    /\ UNCHANGED <<environ, clerk_instance_url, user_conversations,
                   selected_philosophies>>

\* GET /conversations/{user_id}, lines 282-297.
GetUserConversations(r) ==
    /\ Accepts(r)
    /\ \E authorization \in Headers, path_user_id \in UserIds :
       \E verified \in Verifications(authorization, clerk_instance_url) :
             Responds(r, "GET /conversations", verified.user_info, path_user_id,
                      ConversationsResponse(user_conversations, path_user_id,
                                            verified.user_info))

RECURSIVE SumOfLengths(_, _)
SumOfLengths(log, keys) ==
    IF keys = {} THEN 0
    ELSE LET k == CHOOSE x \in keys : TRUE
         IN Len(log[k]) + SumOfLengths(log, keys \ {k})

\* The body of get_stats, lines 302-316.
StatsResponse(log, user_info) ==
    LET stats == [status |-> 200,
                  total_users |-> Cardinality(DOMAIN log),
                  total_conversations |-> SumOfLengths(log, DOMAIN log),
                  authenticated |-> user_info # None]
        sub == DictGet(user_info[1], "sub")
    IN IF TruthyOptDict(user_info)
       THEN stats @@ [user_conversation_count |->
                IF sub = None THEN 0 ELSE Len(ConversationsOf(log, sub[1]))]
       ELSE stats

\* GET /stats, lines 299-316.
GetStats(r) ==
    /\ Accepts(r)
    /\ \E authorization \in Headers :
       \E verified \in Verifications(authorization, clerk_instance_url) :
             Responds(r, "GET /stats", verified.user_info, "",
                      StatsResponse(user_conversations, verified.user_info))

\* display_names, lines 156-162.
DisplayNames ==
    [christian |-> "Christian", buddhist |-> "Buddhist", taoist |-> "Taoist",
     secular_humanist |-> "Secular Humanist", stoic |-> "Stoic"]

\* The body of get_philosophy_mix, lines 147-175; a weight in hundredths is
\* its percentage.
PhilosophyMixResponse(table) ==
    [status |-> 200,
     philosophy_mix |->
        [name \in {table[i][1] : i \in 1..Len(table)} |->
            LET e == CHOOSE x \in {table[i] : i \in 1..Len(table)} : x[1] = name
            IN [name |-> DisplayNames[name], percentage |-> e[2], weight |-> e[2]]],
     total_traditions |-> Len(table),
     description |-> "Babushka draws wisdom from diverse global traditions."]

\* GET /philosophy-mix, lines 145-175.
GetPhilosophyMix(r) ==
    /\ Accepts(r)
    /\ Responds(r, "GET /philosophy-mix", None, "",
                PhilosophyMixResponse(PhilosophyWeights))

\* GET /health, lines 128-130.
HealthCheck(r) ==
    /\ Accepts(r)
    /\ Responds(r, "GET /health", None, "",
                [status |-> 200, health |-> "healthy",
                 clerk_config |-> clerk_instance_url])

\* GET /debug/clerk, lines 132-143.
DebugClerk(r) ==
    /\ Accepts(r)
    /\ Responds(r, "GET /debug/clerk", None, "",
                [status |-> 200,
                 clerk_instance_url |-> clerk_instance_url,
                 clerk_secret_configured |-> environ.CLERK_SECRET_KEY # <<>>,
                 possible_jwks_urls |-> JwksUrls(clerk_instance_url)])

Next ==
    \E r \in Requests :
        \/ PostAdviceBegin(r)
        \/ PostAdviceResume(r)
        \/ GetUserConversations(r)
        \/ GetStats(r)
        \/ GetPhilosophyMix(r)
        \/ HealthCheck(r)
        \/ DebugClerk(r)

Spec == Init /\ [][Next]_vars

(***************************************************************************)
(* The draw of lines 204-221 on its own, for the properties of the         *)
(* selection: the whole list drawn is kept in selected_philosophies.       *)
(***************************************************************************)
PhilosophySelections == SelectPhilosophies(PhilosophyWeights)

DrawPhilosophies ==
    /\ \E selected \in PhilosophySelections :
          selected_philosophies' = Some(selected)
    /\ UNCHANGED <<environ, clerk_instance_url, user_conversations, requests,
                   overlapped>>

NextSelect == DrawPhilosophies

SpecSelect == Init /\ [][NextSelect]_vars

(***************************************************************************)
(* Properties.                                                             *)
(***************************************************************************)
IsAdvice(req) == req.endpoint = "POST /advice"
IsDone(req) == req.pc = "done"
Status(req) == req.response[1].status
Succeeded(req) == IsAdvice(req) /\ IsDone(req) /\ Status(req) = 200
TypesOf(records) == [i \in 1..Len(records) |-> records[i].type]
CountType(records, type) ==
    Cardinality({i \in 1..Len(records) : records[i].type = type})
StoredFor(user_id) ==
    IF user_id \in DOMAIN user_conversations
    THEN user_conversations[user_id] ELSE <<>>
IsPrefix(s, t) == Len(s) <= Len(t) /\ \A i \in 1..Len(s) : s[i] = t[i]

\* The [user_message, bot_response] pairs of the successful POST /advice
\* requests of one subject, in request order, from request r on.
RECURSIVE PairsFrom(_, _)
PairsFrom(user_id, r) ==
    IF r > MaxRequests THEN <<>>
    ELSE IF Succeeded(requests[r]) /\ requests[r].user_id = Some(user_id)
    THEN << [type |-> "user_message", content |-> requests[r].situation],
            [type |-> "bot_response",
             content |-> requests[r].response[1].advice] >>
         \o PairsFrom(user_id, r + 1)
    ELSE PairsFrom(user_id, r + 1)

\* C1: when the requests so far ran one after another (none was handled
\* while another awaited its generation call), all have completed, and every
\* POST /advice of a verified subject succeeded, that subject's log is
\* exactly the pairs [user_message, bot_response] of its requests in request
\* order: 2n records for n requests, 4 records for two.
C1_SequentialPairs ==
    \A u \in UserIds :
        ( /\ ~overlapped
          /\ \A r \in Requests : requests[r].pc \in {"idle", "done"}
          /\ \A r \in Requests :
                IsAdvice(requests[r]) /\ requests[r].user_id = Some(u)
                    => Succeeded(requests[r]) )
        => StoredFor(u) = PairsFrom(u, 1)

\* Two sequential successful requests of one subject: a log of 4 records.
C1_Witness ==
    \E u \in UserIds :
        /\ ~overlapped
        /\ Succeeded(requests[1]) /\ requests[1].user_id = Some(u)
        /\ Succeeded(requests[2]) /\ requests[2].user_id = Some(u)
        /\ TypesOf(StoredFor(u)) =
              <<"user_message", "bot_response", "user_message", "bot_response">>

\* C2: a step of a POST /advice request that carries no verified identity
\* leaves the conversation log as it was (no key, no record), and when its
\* generation call succeeds the response is 200 with user_id null and
\* authenticated false, whatever user_id the body carried.
C2_AnonymousLeavesLog ==
    [][\A r \in Requests :
          ( /\ requests'[r] # requests[r]
            /\ IsAdvice(requests'[r])
            /\ requests'[r].user_info = None )
          => /\ user_conversations' = user_conversations
             /\ ( /\ IsDone(requests'[r])
                  /\ ~requests'[r].generation[1].raised
                  /\ requests'[r].generation[1].content # <<>> )
                => /\ Status(requests'[r]) = 200
                   /\ requests'[r].response[1].user_id = None
                   /\ requests'[r].response[1].authenticated = FALSE]_vars

C2_Witness ==
    \E r \in Requests :
        /\ Succeeded(requests[r])
        /\ requests[r].user_info = None
        /\ requests[r].response[1].authenticated = FALSE
        /\ DOMAIN user_conversations = {}

\* C3: GET /conversations/{user_id} answers 401 when there is no verified
\* identity and 403 when the identity's subject is not the path user_id,
\* whether or not that user has records; it answers 200 exactly when the
\* subject is the path user_id, with that user's whole stored sequence in
\* order (the empty sequence when the user has none).
C3_ConversationsAccess ==
    [][\A r \in Requests :
          ( /\ requests[r].pc = "idle"
            /\ requests'[r].endpoint = "GET /conversations" )
          => LET req == requests'[r]
                 subject == IF req.user_info = None \/ req.user_info[1] = {} THEN None
                            ELSE IF \E p \in req.user_info[1] : p[1] = "sub"
                            THEN <<(CHOOSE p \in req.user_info[1] : p[1] = "sub")[2]>>
                            ELSE None
                 stored == IF req.path_user_id \in DOMAIN user_conversations
                           THEN user_conversations[req.path_user_id] ELSE <<>>
             IN /\ IsDone(req)
                /\ req.user_info = None => Status(req) = 401
                /\ req.user_info # None /\ subject # <<req.path_user_id>>
                      => Status(req) \in {401, 403}
                /\ req.user_info # None /\ req.user_info[1] # {}
                      /\ subject # <<req.path_user_id>> => Status(req) = 403
                /\ subject = <<req.path_user_id>>
                      => /\ Status(req) = 200
                         /\ req.response[1].user_id = req.path_user_id
                         /\ req.response[1].conversations = stored
                /\ Status(req) \in {200, 401, 403}]_vars

\* A request denied with 403 for a path user whose records are in the log.
C3_Witness ==
    /\ IsAdvice(requests[1])
    /\ requests[1].user_id # None
    /\ requests[2].endpoint = "GET /conversations"
    /\ Some(requests[2].path_user_id) = requests[1].user_id
    /\ requests[2].user_info # None
    /\ Status(requests[2]) = 403
    /\ Len(StoredFor(requests[2].path_user_id)) >= 1

\* Headers the verifier must turn down: none, not a Bearer header, a
\* malformed token, a token no key source verifies, an expired token.
RejectedHeaders ==
    {None, Some(<<"Basic ", "dXNlcg">>), Some(<<"Bearer ", "garbage">>),
     Some(<<"Bearer ", "tok_forged">>), Some(<<"Bearer ", "tok_u1_old">>)}

GenerationFailures == {"upstream error", "list index out of range"}

\* C4: the verifier never answers with an error.  Whatever the header and
\* however the key fetches go, a POST /advice request reaches its single
\* generation call with no response sent; with a missing, non-Bearer,
\* malformed, unverifiable or expired token it does so with no identity;
\* and a request with no identity whose generation succeeds answers 200 with
\* authenticated false (a 500 comes from the generation call alone).
C4_VerifierNeverRaises ==
    [][\A r \in Requests :
          /\ ( requests[r].pc = "idle" /\ IsAdvice(requests'[r]) )
             => /\ requests'[r].pc = "generating"
                /\ requests'[r].generation_calls = 1
                /\ requests'[r].response = None
                /\ requests'[r].authorization \in RejectedHeaders
                      => requests'[r].user_info = None
          /\ ( /\ requests[r].pc = "generating"
               /\ requests[r].user_info = None
               /\ IsDone(requests'[r]) )
             => IF ~requests'[r].generation[1].raised
                   /\ requests'[r].generation[1].content # <<>>
                THEN /\ Status(requests'[r]) = 200
                     /\ requests'[r].response[1].authenticated = FALSE
                ELSE /\ Status(requests'[r]) = 500
                     /\ requests'[r].response[1].detail[2] \in GenerationFailures]_vars

\* An expired token and a token whose key fetch failed, both at the
\* generation call as anonymous requests.
C4_Witness ==
    /\ requests[1].pc = "generating"
    /\ requests[1].authorization = Some(<<"Bearer ", "tok_u1_old">>)
    /\ requests[1].user_info = None
    /\ requests[2].pc = "generating"
    /\ requests[2].authorization = Some(<<"Bearer ", "tok_u2">>)
    /\ requests[2].consulted = 3
    /\ requests[2].user_info = None

\* C5: when the generation call of an authenticated POST /advice raises or
\* returns no content block, the handler answers 500 having made that one
\* call only, appends nothing, and the user_message it appended before the
\* call stays in the log; a request that has answered is never resumed.
C5_FailureKeepsUserMessage ==
    [][\A r \in Requests :
          /\ ( /\ requests[r].pc = "generating"
               /\ requests[r].user_id # None
               /\ requests'[r] # requests[r] )
             => /\ IsDone(requests'[r])
                /\ requests'[r].generation_calls = 1
                /\ ( requests'[r].generation[1].raised
                     \/ requests'[r].generation[1].content = <<>> )
                   => /\ Status(requests'[r]) = 500
                      /\ user_conversations' = user_conversations
                      /\ \E i \in 1..Len(user_conversations'[requests[r].user_id[1]]) :
                            user_conversations'[requests[r].user_id[1]][i] =
                               [type |-> "user_message",
                                content |-> requests[r].situation]
          /\ IsDone(requests[r]) => requests'[r] = requests[r]]_vars

\* A failed request of a subject whose log ends with its user_message.
C5_Witness ==
    \E r \in Requests :
        /\ IsAdvice(requests[r]) /\ IsDone(requests[r])
        /\ Status(requests[r]) = 500
        /\ requests[r].user_id # None
        /\ LET stored == StoredFor(requests[r].user_id[1])
           IN /\ stored # <<>>
              /\ stored[Len(stored)] =
                    [type |-> "user_message", content |-> requests[r].situation]

PastFirstAppend(u) ==
    {r \in Requests : /\ IsAdvice(requests[r])
                      /\ requests[r].user_id = Some(u)
                      /\ requests[r].pc \in {"generating", "done"}}
PastSecondAppend(u) ==
    {r \in Requests : Succeeded(requests[r]) /\ requests[r].user_id = Some(u)}

\* C6: under every interleaving of POST /advice requests at their generation
\* calls, each user's log holds one user_message per request of that user
\* past its first append and one bot_response per request of that user whose
\* generation returned successfully, nothing else, and nothing under another
\* key; so bot_responses never outnumber user_messages, and a read taken
\* while requests of the user await generation returns their user_messages
\* without bot_responses for them.
C6_NoLostAppend ==
    /\ [](/\ DOMAIN user_conversations \subseteq UserIds
          /\ \A u \in UserIds :
                /\ CountType(StoredFor(u), "user_message")
                      = Cardinality(PastFirstAppend(u))
                /\ CountType(StoredFor(u), "bot_response")
                      = Cardinality(PastSecondAppend(u))
                /\ Len(StoredFor(u)) = Cardinality(PastFirstAppend(u))
                                         + Cardinality(PastSecondAppend(u))
                /\ CountType(StoredFor(u), "bot_response")
                      <= CountType(StoredFor(u), "user_message")
                /\ \A r \in PastFirstAppend(u) :
                      \E i \in 1..Len(StoredFor(u)) :
                          StoredFor(u)[i] = [type |-> "user_message",
                                             content |-> requests[r].situation])
    /\ [][\A r \in Requests :
             ( /\ requests[r].pc = "idle"
               /\ requests'[r].endpoint = "GET /conversations"
               /\ Status(requests'[r]) = 200 )
             => LET read == requests'[r].response[1].conversations
                    waiting == {q \in PastFirstAppend(requests'[r].path_user_id) :
                                   requests[q].pc = "generating"}
                IN CountType(read, "user_message")
                      >= CountType(read, "bot_response") + Cardinality(waiting)]_vars

\* A read between the two appends of a request: it returns the request's
\* user_message alone.
C6_Witness ==
    /\ requests[1].pc = "generating"
    /\ requests[1].user_id # None
    /\ requests[2].endpoint = "GET /conversations"
    /\ Status(requests[2]) = 200
    /\ Some(requests[2].path_user_id) = requests[1].user_id
    /\ requests[2].response[1].conversations =
          << [type |-> "user_message", content |-> requests[1].situation] >>

\* C7: the log is append-only and only POST /advice appends: across every
\* step each key stays and each user's sequence is a prefix of its later
\* sequence, and a step of GET /conversations, GET /stats,
\* GET /philosophy-mix, GET /health or GET /debug/clerk leaves the log as it
\* was, creating no key.
C7_AppendOnly ==
    [][/\ \A u \in DOMAIN user_conversations :
             /\ u \in DOMAIN user_conversations'
             /\ IsPrefix(user_conversations[u], user_conversations'[u])
       /\ ( \E r \in Requests : /\ requests'[r] # requests[r]
                                /\ ~IsAdvice(requests'[r]) )
          => user_conversations' = user_conversations]_vars

\* A user with no records reads an empty sequence and no key appears.
C7_Witness ==
    \E r \in Requests :
        /\ requests[r].endpoint = "GET /conversations"
        /\ Status(requests[r]) = 200
        /\ requests[r].response[1].conversations = <<>>
        /\ requests[r].path_user_id \notin DOMAIN user_conversations

IsBearer(authorization) ==
    authorization # None /\ authorization[1][1] = "Bearer "

PositiveNames ==
    {PhilosophyWeights[i][1] :
        i \in {j \in 1..Len(PhilosophyWeights) : PhilosophyWeights[j][2] > 0}}

\* C9: every selection drawn for the five-entry table is a sequence of
\* min(3, number of entries of positive weight) names, each an entry of
\* positive weight; the draws are independent, so a selection may name one
\* perspective more than once.
C9_SelectionShape ==
    selected_philosophies # None
        => LET selected == selected_philosophies[1]
           IN /\ DOMAIN selected =
                    1..(IF Cardinality(PositiveNames) < 3
                        THEN Cardinality(PositiveNames) ELSE 3)
              /\ Len(PhilosophyWeights) = 5
              /\ \A i \in DOMAIN selected : selected[i] \in PositiveNames

\* A selection that names the same perspective twice.
C9_Witness ==
    /\ selected_philosophies # None
    /\ \E i, j \in DOMAIN selected_philosophies[1] :
          i # j /\ selected_philosophies[1][i] = selected_philosophies[1][j]

\* C10: a successful POST /advice response that reports authenticated true
\* carries a non-null user_id, the subject of the verified token, and the
\* request's user_message and bot_response are in the log under it; and
\* every key of the log is the subject of some POST /advice request.
C10_AuthenticatedIsLogged ==
    /\ \A r \in Requests :
          ( Succeeded(requests[r]) /\ requests[r].response[1].authenticated )
          => /\ requests[r].response[1].user_id # None
             /\ requests[r].response[1].user_id = SubjectOf(requests[r].user_info)
             /\ LET stored == StoredFor(requests[r].response[1].user_id[1])
                IN /\ \E i \in 1..Len(stored) :
                         stored[i] = [type |-> "user_message",
                                      content |-> requests[r].situation]
                   /\ \E i \in 1..Len(stored) :
                         stored[i] = [type |-> "bot_response",
                                      content |-> requests[r].response[1].advice]
    /\ \A u \in DOMAIN user_conversations :
          \E r \in Requests :
              IsAdvice(requests[r]) /\ SubjectOf(requests[r].user_info) = Some(u)

====
